---------------------------- MODULE Spec2Model ----------------------------
(***************************************************************************)
(* A model of the shellcraft command-line interpreter                      *)
(* (src/unnamed/part_000): the line tokenizer splitCommandLine and the     *)
(* read-eval loop ask().                                                   *)
(*                                                                         *)
(* A line of text is a sequence of one-character strings.  JavaScript      *)
(* indexes strings from 0; sequences here are indexed from 1, so the loop  *)
(* variable i of the model is the code's i + 1.                            *)
(***************************************************************************)
EXTENDS Integers, Sequences, FiniteSets, TLC

VARIABLES
    command,    \* the line handed to splitCommandLine; in the loop, the line of the
                \* rl.question callback, until the next ask()
    i,          \* splitCommandLine: loop index (1-based)
    state,      \* splitCommandLine: CaracterStateEnum
    current,    \* splitCommandLine: characters of the current argument
    tokens,     \* splitCommandLine: tokens emitted so far
    tpc,        \* splitCommandLine: "idle", "loop" (in the for loop), "done" (returned)
    pc,         \* ask: "prompt" (rl.question pending), "handling" (a line is handed to
                \* the callback), "waiting" (for a child or a stream), "closed"
                \* (rl.close()), "crashed" (uncaught exception); "idle" outside the loop
    cwd,        \* process.cwd()
    currentWorkspaceDirectory,  \* ask: the directory captured when ask() was called
    out,        \* what the callback of the last line printed with console.log
    spawned,    \* the spawn() request of the callback of the last line
    child,      \* the child process: "none", "running", "exited", "failed"
    childOut,   \* the child's piped stream: "none", "open", "ended"
    outputStream,   \* the write stream of the redirection: status "none", "open", "failed"
    file,       \* the file FollowedFile on disk: whether it exists, and its content
    asks,       \* ask: the calls of ask() since the line of the callback was handed
                \* over; before the first line, the call that starts the loop
    pending     \* the rl.question callbacks that wait for a line

tokVars == <<i, state, current, tokens, tpc>>
shellVars == <<pc, cwd, currentWorkspaceDirectory, out, spawned, child, childOut, outputStream, file,
              asks, pending>>
vars == <<command, i, state, current, tokens, tpc,
          pc, cwd, currentWorkspaceDirectory, out, spawned, child, childOut, outputStream, file,
          asks, pending>>

-----------------------------------------------------------------------------
(* Bounds of the checked input sets.                                       *)

MaxLen == 4         \* longest line of TokLines
MaxWordLen == 2     \* longest plain word of RedirLines

-----------------------------------------------------------------------------
(* Sequences helpers.                                                      *)

SeqsUpTo(S, n) == UNION {[1..k -> S] : k \in 0..n}

NonEmptySeqsUpTo(S, n) == UNION {[1..k -> S] : k \in 1..n}

-----------------------------------------------------------------------------
(* The tokenizer.                                                          *)

NORMAL == "NORMAL"
INSIDE_SINGLE_QUOTE == "INSIDE_SINGLE_QUOTE"
INSIDE_DOUBLE_QUOTE == "INSIDE_DOUBLE_QUOTE"
BACKSLASH_OUTSIDE_QUOTES == "BACKSLASH_OUTSIDE_QUOTES"
BACKSLASH_INSIDE_QUOTES == "BACKSLASH_INSIDE_QUOTES"

\* The grave accent cannot be written inside a TLA+ string; "GRAVE" stands for
\* that one character.
ESCAPABLE_IN_DOUBLE_QUOTES == {<<"\"">>, <<"$">>, <<"\\">>, <<"GRAVE">>}

isSingleQuote(c) == c = <<"'">>

isDoubleQuote(c) == c = <<"\"">>

isBackslash(c) == c = <<"\\">>

\* isAppend without the numbered operators.
isAppend_Unnumbered(c) == c = <<">", ">">>

isAppend(c) == c = <<"1", ">", ">">> \/ c = <<"2", ">", ">">> \/ c = <<">", ">">>

isRedirect(c) == c = <<"1", ">">> \/ c = <<"2", ">">> \/ c = <<">">>

\* isEscapableInDoubleQuote accepting every character.
isEscapableInDoubleQuote_Any(c) == Len(c) = 1

isEscapableInDoubleQuote(c) == c \in ESCAPABLE_IN_DOUBLE_QUOTES

\* What string concatenation makes of line[k] when k is past the end of the
\* line: the text "undefined".
Undefined == <<"u", "n", "d", "e", "f", "i", "n", "e", "d">>

\* line[k] as a string (k is 1-based).
CharAt(line, k) == IF k \in 1..Len(line) THEN <<line[k]>> ELSE Undefined

Word(v) == [type |-> "WORD", value |-> v]

Redirect(v) == [type |-> "REDIRECT", value |-> v]

\* The loop's variables; cont says that the iteration has executed `continue`.
LoopState(s, cur, toks, k, cont) ==
    [state |-> s, current |-> cur, tokens |-> toks, i |-> k, cont |-> cont]

\* if (state == NORMAL) { ... }
NormalCase(line, r) ==
    LET c == CharAt(line, r.i)
        next == CharAt(line, r.i + 1)
        nextForward == CharAt(line, r.i + 2)
        twoChars == c \o next
        threeChar == c \o next \o nextForward
    IN  IF r.cont \/ r.state # NORMAL THEN r
        ELSE IF isSingleQuote(c) THEN [r EXCEPT !.state = INSIDE_SINGLE_QUOTE, !.cont = TRUE]
        ELSE IF isDoubleQuote(c) THEN [r EXCEPT !.state = INSIDE_DOUBLE_QUOTE, !.cont = TRUE]
        ELSE IF isBackslash(c) THEN [r EXCEPT !.state = BACKSLASH_OUTSIDE_QUOTES, !.cont = TRUE]
        ELSE IF isAppend(threeChar)
            THEN [r EXCEPT !.tokens = Append(@, Redirect(threeChar)), !.i = @ + 2, !.cont = TRUE]
        ELSE IF isAppend(twoChars) \/ isRedirect(twoChars)
            THEN [r EXCEPT !.tokens = Append(@, Redirect(twoChars)), !.i = @ + 1, !.cont = TRUE]
        ELSE IF isRedirect(c)
            THEN [r EXCEPT !.tokens = Append(@, Redirect(c)), !.cont = TRUE]
        ELSE IF c = <<" ">>
            THEN IF Len(r.current) > 0
                 THEN [r EXCEPT !.tokens = Append(@, Word(r.current)), !.current = <<>>, !.cont = TRUE]
                 ELSE [r EXCEPT !.cont = TRUE]
        ELSE [r EXCEPT !.current = @ \o c]

\* InsideSingleQuote that drops a backslash.
InsideSingleQuote_DropsBackslash(line, r) ==
    LET c == CharAt(line, r.i)
    IN  IF r.cont \/ r.state # INSIDE_SINGLE_QUOTE THEN r
        ELSE IF isSingleQuote(c) THEN [r EXCEPT !.state = NORMAL, !.cont = TRUE]
        ELSE IF isBackslash(c) THEN [r EXCEPT !.cont = TRUE]
        ELSE [r EXCEPT !.current = @ \o c]

\* if (state == INSIDE_SINGLE_QUOTE) { ... }
InsideSingleQuote(line, r) ==
    LET c == CharAt(line, r.i)
    IN  IF r.cont \/ r.state # INSIDE_SINGLE_QUOTE THEN r
        ELSE IF isSingleQuote(c) THEN [r EXCEPT !.state = NORMAL, !.cont = TRUE]
        ELSE [r EXCEPT !.current = @ \o c]

\* if (state == INSIDE_DOUBLE_QUOTE) { ... }
InsideDoubleQuote(line, r) ==
    LET c == CharAt(line, r.i)
        next == CharAt(line, r.i + 1)
    IN  IF r.cont \/ r.state # INSIDE_DOUBLE_QUOTE THEN r
        ELSE IF isDoubleQuote(c) THEN [r EXCEPT !.state = NORMAL, !.cont = TRUE]
        ELSE IF isBackslash(c) /\ isEscapableInDoubleQuote(next)
            THEN [r EXCEPT !.state = BACKSLASH_INSIDE_QUOTES, !.cont = TRUE]
        ELSE [r EXCEPT !.current = @ \o c]

\* BackslashOutsideQuotes that hands the escaped character back to the NORMAL
\* case instead of copying it.
BackslashOutsideQuotes_Reprocess(line, r) ==
    IF r.cont \/ r.state # BACKSLASH_OUTSIDE_QUOTES THEN r
    ELSE [NormalCase(line, [r EXCEPT !.state = NORMAL]) EXCEPT !.cont = TRUE]

\* if (state == BACKSLASH_OUTSIDE_QUOTES) { ... }
BackslashOutsideQuotes(line, r) ==
    LET c == CharAt(line, r.i)
    IN  IF r.cont \/ r.state # BACKSLASH_OUTSIDE_QUOTES THEN r
        ELSE [r EXCEPT !.state = NORMAL, !.current = @ \o c, !.cont = TRUE]

\* if (state == BACKSLASH_INSIDE_QUOTES) { ... }
BackslashInsideQuotes(line, r) ==
    LET c == CharAt(line, r.i)
    IN  IF r.cont \/ r.state # BACKSLASH_INSIDE_QUOTES THEN r
        ELSE [r EXCEPT !.state = INSIDE_DOUBLE_QUOTE, !.current = @ \o c, !.cont = TRUE]

\* The loop body with the operators looked for in every state: a `>` ends
\* whatever quoting the loop is in.
LoopBody_OperatorsInEveryState(line, r) ==
    LET r0 == [r EXCEPT !.cont = FALSE,
                        !.state = IF isRedirect(CharAt(line, r.i)) THEN NORMAL ELSE @]
        r1 == NormalCase(line, r0)
        r2 == InsideSingleQuote(line, r1)
        r3 == InsideDoubleQuote(line, r2)
        r4 == BackslashOutsideQuotes(line, r3)
        r5 == BackslashInsideQuotes(line, r4)
    IN  [r5 EXCEPT !.i = @ + 1, !.cont = FALSE]

\* One iteration of the for loop: the five blocks in the order of the code,
\* then i++.
LoopBody(line, r) ==
    LET r1 == NormalCase(line, [r EXCEPT !.cont = FALSE])
        r2 == InsideSingleQuote(line, r1)
        r3 == InsideDoubleQuote(line, r2)
        r4 == BackslashOutsideQuotes(line, r3)
        r5 == BackslashInsideQuotes(line, r4)
    IN  [r5 EXCEPT !.i = @ + 1, !.cont = FALSE]

\* FlushCurrent without the test for an empty argument.
FlushCurrent_Always(r) == Append(r.tokens, Word(r.current))

\* After the loop: the last argument is pushed when it is not empty.
FlushCurrent(r) ==
    IF Len(r.current) > 0 THEN Append(r.tokens, Word(r.current)) ELSE r.tokens

RECURSIVE RunLoop(_, _)
RunLoop(line, r) == IF r.i <= Len(line) THEN RunLoop(line, LoopBody(line, r)) ELSE r

LoopStart == LoopState(NORMAL, <<>>, <<>>, 1, FALSE)

splitCommandLine(line) == FlushCurrent(RunLoop(line, LoopStart))

-----------------------------------------------------------------------------
(* splitCommandLine run one loop iteration at a time.                      *)

NoOutput == [kind |-> "none"]

NoSpawn == [name |-> <<>>, args |-> <<>>, stdio |-> <<>>]

NoStream == [status |-> "none", path |-> <<>>, flags |-> "none"]
NoFile == [exists |-> FALSE, content |-> <<>>]

\* The loop's variables while only splitCommandLine is run.
ShellIdle ==
    /\ pc = "idle"
    /\ cwd = <<"/">>
    /\ currentWorkspaceDirectory = <<"/">>
    /\ out = NoOutput
    /\ spawned = NoSpawn
    /\ child = "none"
    /\ childOut = "none"
    /\ outputStream = NoStream
    /\ file = NoFile
    /\ asks = 0
    /\ pending = 0

TokAlphabet == {"a", " ", ">", "1", "2", "'", "\"", "\\", "$"}

TokLines == SeqsUpTo(TokAlphabet, MaxLen)

TokStart(line) ==
    /\ command = line
    /\ i = 1
    /\ state = NORMAL
    /\ current = <<>>
    /\ tokens = <<>>
    /\ tpc = "loop"
    /\ ShellIdle

TokInit == \E line \in TokLines : TokStart(line)

Iterate ==
    /\ tpc = "loop"
    /\ i <= Len(command)
    /\ LET r == LoopBody(command, LoopState(state, current, tokens, i, FALSE))
       IN  /\ i' = r.i
           /\ state' = r.state
           /\ current' = r.current
           /\ tokens' = r.tokens
    /\ UNCHANGED <<command, tpc>>
    /\ UNCHANGED shellVars

Return ==
    /\ tpc = "loop"
    /\ i > Len(command)
    /\ tokens' = FlushCurrent(LoopState(state, current, tokens, i, FALSE))
    /\ tpc' = "done"
    /\ UNCHANGED <<command, i, state, current>>
    /\ UNCHANGED shellVars

TokNext == Iterate \/ Return

TokSpec == TokInit /\ [][TokNext]_vars


\* The same loop on lines of the form `w op t`.
PlainChars == {"a", "1", "2"}

PlainWords == NonEmptySeqsUpTo(PlainChars, MaxWordLen)

RedirectOps ==
    {<<">">>, <<"1", ">">>, <<"2", ">">>, <<">", ">">>, <<"1", ">", ">">>, <<"2", ">", ">">>}

RedirLine(w, op, t) == w \o <<" ">> \o op \o <<" ">> \o t

RedirLines == {RedirLine(w, op, t) : w \in PlainWords, op \in RedirectOps, t \in PlainWords}

RedirInit == \E line \in RedirLines : TokStart(line)

RedirSpec == RedirInit /\ [][TokNext]_vars

\* The same loop on lines without quotes, backslashes and `>`.
MaxPlainLen == 6

PlainLineChars == {"a", "1", " "}

PlainLines == SeqsUpTo(PlainLineChars, MaxPlainLen)

PlainInit == \E line \in PlainLines : TokStart(line)

PlainSpec == PlainInit /\ [][TokNext]_vars

-----------------------------------------------------------------------------
(* Reference definitions used by the properties.                           *)

\* The index of the first space of s, or Len(s) + 1.
RECURSIVE FirstSpace(_, _)
FirstSpace(s, k) ==
    IF k > Len(s) \/ s[k] = " " THEN k ELSE FirstSpace(s, k + 1)

\* The non-empty pieces of s between runs of spaces.
RECURSIVE SpacePieces(_)
SpacePieces(s) ==
    IF s = <<>> THEN <<>>
    ELSE IF Head(s) = " " THEN SpacePieces(Tail(s))
    ELSE LET n == FirstSpace(s, 1)
         IN  <<SubSeq(s, 1, n - 1)>> \o SpacePieces(SubSeq(s, n, Len(s)))

Chars(s) == {s[k] : k \in 1..Len(s)}

Last(s) == s[Len(s)]

InLoop == tpc = "loop" /\ i <= Len(command)

-----------------------------------------------------------------------------
(* Properties of the tokenizer.                                            *)

\* C1: a line `w op t` (plain words w and t, op one of the six redirection
\* operators, separated by spaces) tokenizes to exactly
\* [Word(w), Redirect(op), Word(t)]: the operator is one Redirect token.
C1_RedirectLongestFirst ==
    LET p == SpacePieces(command)
    IN  (tpc = "done" /\ Len(p) = 3 /\ p[2] \in RedirectOps
            /\ Chars(p[1]) \cup Chars(p[3]) \subseteq PlainChars)
        => tokens = <<Word(p[1]), Redirect(p[2]), Word(p[3])>>

C1_Witness ==
    /\ tpc = "done"
    /\ command = <<"a", "1", " ", "2", ">", ">", " ", "2">>
    /\ tokens = <<Word(<<"a", "1">>), Redirect(<<"2", ">", ">">>), Word(<<"2">>)>>

\* C2: when the loop ends inside an open single or double quote, the
\* characters accumulated after the quote are not flushed as a Word token.
C2_UnterminatedQuoteNotFlushed ==
    (tpc = "done" /\ state \in {INSIDE_SINGLE_QUOTE, INSIDE_DOUBLE_QUOTE} /\ current # <<>>)
    => (tokens = <<>> \/ Last(tokens) # Word(current))

\* C3: inside single quotes every character other than the closing quote is
\* appended to the current word; the state stays INSIDE_SINGLE_QUOTE and no
\* token is emitted.
C3_SingleQuoteVerbatim ==
    [][(InLoop /\ state = INSIDE_SINGLE_QUOTE /\ command[i] # "'")
        => /\ current' = Append(current, command[i])
           /\ state' = INSIDE_SINGLE_QUOTE
           /\ tokens' = tokens
           /\ i' = i + 1]_vars

C3_Witness ==
    /\ state = INSIDE_SINGLE_QUOTE
    /\ i > Len(command)
    /\ Len(current) = 3
    /\ Chars(current) \subseteq {"\\", "\"", " ", ">"}
    /\ tokens = <<>>

\* C4: inside double quotes a backslash followed by one of `"`, `$`, `\`,
\* grave accent is dropped and the following character is appended without
\* closing the quote or starting an escape; a backslash followed by anything
\* else, or by the end of the line, is appended itself and the state stays
\* INSIDE_DOUBLE_QUOTE.
C4_Escapable == {<<"\"">>, <<"$">>, <<"\\">>, <<"GRAVE">>}

C4_DoubleQuoteEscape ==
    [][/\ (InLoop /\ state = INSIDE_DOUBLE_QUOTE /\ command[i] = "\\"
              /\ CharAt(command, i + 1) \in C4_Escapable)
          => /\ state' = BACKSLASH_INSIDE_QUOTES
             /\ current' = current
             /\ tokens' = tokens
             /\ i' = i + 1
             /\ i' <= Len(command)
       /\ (InLoop /\ state = BACKSLASH_INSIDE_QUOTES)
          => /\ <<command[i]>> \in C4_Escapable
             /\ state' = INSIDE_DOUBLE_QUOTE
             /\ current' = Append(current, command[i])
             /\ tokens' = tokens
             /\ i' = i + 1
       /\ (InLoop /\ state = INSIDE_DOUBLE_QUOTE /\ command[i] = "\\"
              /\ CharAt(command, i + 1) \notin C4_Escapable)
          => /\ state' = INSIDE_DOUBLE_QUOTE
             /\ current' = Append(current, "\\")
             /\ tokens' = tokens
             /\ i' = i + 1]_vars

C4_Witness ==
    /\ command = <<"\"", "\\", "\"", "\\">>
    /\ state = INSIDE_DOUBLE_QUOTE
    /\ i > Len(command)
    /\ current = <<"\"", "\\">>

\* C5: in NORMAL state a backslash is dropped and the character after it,
\* whatever it is, is appended to the current word; no token is emitted and
\* the state is NORMAL again.
C5_BackslashOutsideQuotes ==
    [][/\ (InLoop /\ state = NORMAL /\ command[i] = "\\")
          => /\ state' = BACKSLASH_OUTSIDE_QUOTES
             /\ current' = current
             /\ tokens' = tokens
             /\ i' = i + 1
       /\ (InLoop /\ state = BACKSLASH_OUTSIDE_QUOTES)
          => /\ state' = NORMAL
             /\ current' = Append(current, command[i])
             /\ tokens' = tokens
             /\ i' = i + 1]_vars

C5_Witness ==
    /\ command = <<"a", "\\", " ", "1">>
    /\ tpc = "done"
    /\ tokens = <<Word(<<"a", " ", "1">>)>>

\* C6: a line without quotes, backslashes and `>` tokenizes to the Words whose
\* values are the non-empty pieces of the line between runs of spaces.
C6_PlainLineSplitsOnSpaces ==
    (tpc = "done" /\ Chars(command) \cap {"'", "\"", "\\", ">"} = {})
    => LET p == SpacePieces(command)
       IN  tokens = [k \in 1..Len(p) |-> Word(p[k])]

C6_Witness ==
    /\ tpc = "done"
    /\ command = <<" ", "a", " ", " ", "1", " ">>
    /\ tokens = <<Word(<<"a">>), Word(<<"1">>)>>

-----------------------------------------------------------------------------
(* The read-eval loop.                                                     *)

MaxItems == 3       \* most items after the command name in a line of ShellLines

EXIT == <<"e", "x", "i", "t">>
CD == <<"c", "d">>
ECHO == <<"e", "c", "h", "o">>
TYPE == <<"t", "y", "p", "e">>
PWD == <<"p", "w", "d">>

\* const commands = new Set<string>()
commands == {ECHO, TYPE, PWD, CD, EXIT}

\* The environment: the search path, the executable files, the directories
\* and the home directory.
routes == << <<"/", "b">>, <<"/", "u">> >>

ExecutableFiles ==
    { <<"/", "b", "/", "l", "s">>, <<"/", "u", "/", "l", "s">>, <<"/", "u", "/", "s", "h">> }

\* The files of the search path: the executable ones and one that is not.
Files == ExecutableFiles \cup { <<"/", "b", "/", "s", "h">> }

Directories == { <<"/">>, <<"/", "d">>, <<"/", "h">>, <<"/", "b">>, <<"/", "u">> }

HOME == <<"/", "h">>

\* array.join(sep)
RECURSIVE Join(_, _)
Join(words, sep) ==
    IF words = <<>> THEN <<>>
    ELSE IF Len(words) = 1 THEN words[1]
    ELSE words[1] \o sep \o Join(Tail(words), sep)

\* string.trimStart() and string.trim(), for spaces
RECURSIVE TrimStart(_)
TrimStart(str) == IF str # <<>> /\ Head(str) = " " THEN TrimStart(Tail(str)) ELSE str

RECURSIVE TrimEnd(_)
TrimEnd(str) ==
    IF str # <<>> /\ Last(str) = " " THEN TrimEnd(SubSeq(str, 1, Len(str) - 1)) ELSE str

Trim(str) == TrimEnd(TrimStart(str))

\* path.join(route, command), for a command without separators and dots
PathJoin(route, name) == route \o <<"/">> \o name

\* findExecutableInPath: the first route that holds an executable file of
\* that name, or "null".
RECURSIVE FindFrom(_, _)
FindFrom(k, name) ==
    IF k > Len(routes) THEN "null"
    ELSE IF PathJoin(routes[k], name) \in Files /\ PathJoin(routes[k], name) \in ExecutableFiles
    THEN PathJoin(routes[k], name)
    ELSE FindFrom(k + 1, name)

\* The search that keeps the last route with a match.
RECURSIVE FindLastFrom(_, _)
FindLastFrom(k, name) ==
    IF k < 1 THEN "null"
    ELSE IF PathJoin(routes[k], name) \in ExecutableFiles THEN PathJoin(routes[k], name)
    ELSE FindLastFrom(k - 1, name)

findExecutableInPath_LastRoute(name) == FindLastFrom(Len(routes), name)

findExecutableInPath(name) == FindFrom(1, name)

\* normalizePath on a host whose separator is '/': every '\' becomes '/'.
normalizePath(inputPath) ==
    [k \in 1..Len(inputPath) |-> IF inputPath[k] = "\\" THEN "/" ELSE inputPath[k]]

\* path.isAbsolute / path.resolve(process.cwd(), p), for paths without "." and
\* ".." segments and without repeated or trailing separators.
Resolve(dir, p) ==
    IF p # <<>> /\ Head(p) = "/" THEN p
    ELSE IF p = <<>> THEN dir
    ELSE IF dir = <<"/">> THEN dir \o p
    ELSE dir \o <<"/">> \o p

\* handleCDCommand with the resolved path in the message.
handleCDCommand_PrintsResolved(dir, absolutePath) ==
    LET resolvedPath == Resolve(dir, normalizePath(absolutePath))
    IN  IF TrimStart(absolutePath) # <<>> /\ Head(TrimStart(absolutePath)) = "~"
        THEN [cwd |-> HOME, out |-> NoOutput]
        ELSE IF resolvedPath \in Directories
        THEN [cwd |-> resolvedPath, out |-> NoOutput]
        ELSE [cwd |-> dir, out |-> [kind |-> "cd: no such file or directory", text |-> resolvedPath]]

\* handleCDCommand: the new working directory and what is printed.
handleCDCommand(dir, absolutePath) ==
    LET resolvedPath == Resolve(dir, normalizePath(absolutePath))
    IN  IF TrimStart(absolutePath) # <<>> /\ Head(TrimStart(absolutePath)) = "~"
        THEN [cwd |-> HOME, out |-> NoOutput]
        ELSE IF resolvedPath \in Directories
        THEN [cwd |-> resolvedPath, out |-> NoOutput]
        ELSE [cwd |-> dir, out |-> [kind |-> "cd: no such file or directory", text |-> absolutePath]]

\* notFoundCommand
notFoundCommand(name) == [kind |-> "not found", text |-> name]

\* hadnleTypeCommand
hadnleTypeCommand(name) ==
    IF findExecutableInPath(name) # "null"
    THEN [kind |-> "is", text |-> name, path |-> findExecutableInPath(name)]
    ELSE notFoundCommand(name)

\* What the callback derives from the tokens.
Values(toks) == [k \in 1..Len(toks) |-> toks[k].value]

restCommandOf(toks) == Values(Tail(toks))

redirectTokenOf(toks) == SelectSeq(toks, LAMBDA item : item.type = "REDIRECT")

includeRedirectOf(toks) == Len(redirectTokenOf(toks)) > 0

\* The append test for the operator `>>` alone.
IncludesAppend_Exact(op) == op = <<">", ">">>

\* redirectOp.includes('>>')
IncludesAppend(op) == \E k \in 1..(Len(op) - 1) : op[k] = ">" /\ op[k + 1] = ">"

\* The stream test that never selects stderr.
isStderrRedirectOf_Never(op) == FALSE

\* const isStderrRedirect = redirectOp === '2>' || redirectOp === '2>>'
isStderrRedirectOf(op) == op = <<"2", ">">> \/ op = <<"2", ">", ">">>

\* restCommand.findIndex(t => ['>', '1>', '2>', '>>', '1>>', '2>>'].includes(t)),
\* 1-based; 0 stands for the code's -1.
RECURSIVE FindIndexFrom(_, _)
FindIndexFrom(rest, k) ==
    IF k > Len(rest) THEN 0
    ELSE IF rest[k] \in RedirectOps THEN k
    ELSE FindIndexFrom(rest, k + 1)

redirectIndexOf(rest) == FindIndexFrom(rest, 1)

\* restCommand.slice(0, redirectIndex): slice(0, -1) drops the last element.
argsOf(rest) ==
    IF redirectIndexOf(rest) = 0 THEN SubSeq(rest, 1, Len(rest) - 1)
    ELSE SubSeq(rest, 1, redirectIndexOf(rest) - 1)

\* ask() with the directory captured once, when the loop starts.
Ask_KeepsCapture(dir) ==
    /\ currentWorkspaceDirectory' = currentWorkspaceDirectory
    /\ pc' = "prompt"
    /\ command' = <<>>
    /\ asks' = asks + 1
    /\ pending' = pending + 1

\* ask(): the directory is captured and the question is put; the callback of
\* the previous line is over.
Ask(dir) ==
    /\ currentWorkspaceDirectory' = dir
    /\ pc' = "prompt"
    /\ command' = <<>>
    /\ asks' = asks + 1
    /\ pending' = pending + 1

\* An uncaught exception ends the process.
Crash ==
    /\ pc' = "crashed"
    /\ UNCHANGED <<command, cwd, currentWorkspaceDirectory, out, spawned, child, childOut, outputStream, file, asks, pending>>

\* rl.close()
Close ==
    /\ pc' = "closed"
    /\ UNCHANGED <<command, cwd, currentWorkspaceDirectory, out, spawned, child, childOut, outputStream, file, asks, pending>>

\* The test for the builtin switch without the redirection part.
isBuiltinRoute_IgnoresRedirect(firstCommand, includeRedirect) ==
    firstCommand.value \in commands

\* if (commands.has(firstCommand.value) && !includeRedirect)
isBuiltinRoute(firstCommand, includeRedirect) ==
    firstCommand.value \in commands /\ ~includeRedirect

\* The builtin switch with an exit case that does nothing.
Builtin_ExitFallsThrough(name, rest) ==
    /\ cwd' = IF name = CD THEN handleCDCommand(cwd, Join(rest, <<" ">>)).cwd ELSE cwd
    /\ out' = IF name = ECHO THEN [kind |-> "echo", text |-> Join(rest, <<" ">>)]
              ELSE IF name = CD THEN handleCDCommand(cwd, Join(rest, <<" ">>)).out
              ELSE NoOutput
    /\ Ask(cwd')
    /\ UNCHANGED <<spawned, child, childOut, outputStream, file>>

\* The switch over the builtin commands, followed by ask().
Builtin(name, rest) ==
    IF name = EXIT THEN Close
    ELSE /\ cwd' = IF name = CD THEN handleCDCommand(cwd, Join(rest, <<" ">>)).cwd ELSE cwd
         /\ out' = IF name = ECHO THEN [kind |-> "echo", text |-> Join(rest, <<" ">>)]
                   ELSE IF name = TYPE
                        THEN IF Trim(Join(rest, <<",">>)) \in commands
                             THEN [kind |-> "is a shell builtin", text |-> Join(rest, <<",">>)]
                             ELSE hadnleTypeCommand(Trim(Join(rest, <<",">>)))
                   ELSE IF name = PWD THEN [kind |-> "pwd", text |-> currentWorkspaceDirectory]
                   ELSE handleCDCommand(cwd, Join(rest, <<" ">>)).out
         /\ Ask(cwd')
         /\ UNCHANGED <<spawned, child, childOut, outputStream, file>>

\* The file whose content is followed, as an absolute path.
FollowedFile == <<"/", "t">>

\* fs.createWriteStream(outputPath, { flags }): the file is created; it is
\* emptied unless the flags are 'a'.
OpenFile(stream, dir) ==
    IF stream.status = "open" /\ Resolve(dir, stream.path) = FollowedFile
    THEN [exists |-> TRUE, content |-> IF stream.flags = "a" THEN file.content ELSE <<>>]
    ELSE file

\* What the child writes on the stream that is piped: one chunk, which
\* tells the stream and the arguments of the child.
ChildOutput(sp) ==
    [stream |-> IF sp.stdio = <<"inherit", "inherit", "pipe">> THEN "stderr" ELSE "stdout",
     args |-> sp.args]

\* child.stdout.pipe(outputStream) / child.stderr.pipe(outputStream): when
\* the stream finishes, what the child wrote is in the file.
WriteFile(stream, dir, data) ==
    IF Resolve(dir, stream.path) = FollowedFile
    THEN [file EXCEPT !.content = @ \o <<data>>]
    ELSE file

\* if (includeRedirect) { ... }: the stream is created, the child is spawned
\* and piped to the stream.  path.dirname(undefined) throws when there is no
\* word after the command name.  A child that cannot be spawned reports
\* 'error' later (ChildError), and so does a stream whose path is a directory
\* (StreamError).
RedirectPath(name, rest, redirectOp) ==
    IF rest = <<>> THEN Crash
    ELSE /\ outputStream' = [status |-> IF Resolve(cwd, Last(rest)) \in Directories
                                        THEN "failed" ELSE "open",
                             path |-> Last(rest),
                             flags |-> IF IncludesAppend(redirectOp) THEN "a" ELSE "w"]
         /\ spawned' = [name |-> name, args |-> argsOf(rest),
                        stdio |-> IF isStderrRedirectOf(redirectOp)
                                  THEN <<"inherit", "inherit", "pipe">>
                                  ELSE <<"inherit", "pipe", "inherit">>]
         /\ child' = IF findExecutableInPath(name) # "null" THEN "running" ELSE "failed"
         /\ childOut' = IF findExecutableInPath(name) # "null" THEN "open" ELSE "none"
         /\ file' = OpenFile(outputStream', cwd)
         /\ pc' = "waiting"
         /\ UNCHANGED <<command, cwd, currentWorkspaceDirectory, out, asks, pending>>

\* ExternalPath that puts the question when the child is spawned, and again
\* when it closes.
ExternalPath_AsksAtOnce(name, rest) ==
    IF findExecutableInPath(name) # "null"
    THEN /\ spawned' = [name |-> name, args |-> rest, stdio |-> <<"inherit", "inherit", "inherit">>]
         /\ child' = "running"
         /\ childOut' = "none"
         /\ pc' = "waiting"
         /\ asks' = asks + 1
         /\ pending' = pending + 1
         /\ UNCHANGED <<command, cwd, currentWorkspaceDirectory, out, outputStream, file>>
    ELSE /\ out' = notFoundCommand(name)
         /\ Ask(cwd)
         /\ UNCHANGED <<cwd, spawned, child, childOut, outputStream, file>>

\* The rest of the callback: the command is spawned when it is found on the
\* search path.
ExternalPath(name, rest) ==
    IF findExecutableInPath(name) # "null"
    THEN /\ spawned' = [name |-> name, args |-> rest, stdio |-> <<"inherit", "inherit", "inherit">>]
         /\ child' = "running"
         /\ childOut' = "none"
         /\ pc' = "waiting"
         /\ UNCHANGED <<command, cwd, currentWorkspaceDirectory, out, outputStream, file, asks, pending>>
    ELSE /\ out' = notFoundCommand(name)
         /\ Ask(cwd)
         /\ UNCHANGED <<cwd, spawned, child, childOut, outputStream, file>>

\* The user enters a line: readline hands it to the pending question's
\* callback.  What the previous callback printed and spawned is forgotten.
Question(line) ==
    /\ pc = "prompt"
    /\ command' = line
    /\ pc' = "handling"
    /\ out' = NoOutput
    /\ spawned' = NoSpawn
    /\ asks' = 0
    /\ pending' = pending - 1
    /\ UNCHANGED <<cwd, currentWorkspaceDirectory, child, childOut, outputStream, file>>
    /\ UNCHANGED tokVars

\* The callback of rl.question.  firstCommand.value throws when the line has
\* no token.
Handle ==
    /\ pc = "handling"
    /\ LET splittedCommands == splitCommandLine(command)
       IN  IF command = EXIT \o <<" ", "0">> THEN Close
           ELSE IF splittedCommands = <<>> THEN Crash
           ELSE LET firstCommand == splittedCommands[1]
                    restCommand == restCommandOf(splittedCommands)
                    redirectToken == redirectTokenOf(splittedCommands)
                    includeRedirect == includeRedirectOf(splittedCommands)
                IN  IF isBuiltinRoute(firstCommand, includeRedirect)
                    THEN Builtin(firstCommand.value, restCommand)
                    ELSE IF includeRedirect
                    THEN RedirectPath(firstCommand.value, restCommand, redirectToken[1].value)
                    ELSE ExternalPath(firstCommand.value, restCommand)
    /\ UNCHANGED tokVars

\* A running child closes the stream that is piped to the file.
ChildClosesOutput ==
    /\ child = "running"
    /\ childOut = "open"
    /\ childOut' = "ended"
    /\ UNCHANGED <<command, pc, cwd, currentWorkspaceDirectory, out, spawned, child, outputStream, file, asks, pending>>
    /\ UNCHANGED tokVars

\* The child exits.  child.on('close') of the external path calls ask(); the
\* redirection path has no listener on the child.
ChildExit ==
    /\ child = "running"
    /\ child' = "exited"
    /\ childOut' = IF childOut = "open" THEN "ended" ELSE childOut
    /\ IF outputStream.status = "none" /\ pc = "waiting"
       THEN Ask(cwd)
       ELSE UNCHANGED <<command, pc, currentWorkspaceDirectory, asks, pending>>
    /\ UNCHANGED <<cwd, out, spawned, outputStream, file>>
    /\ UNCHANGED tokVars

\* The piped stream has ended and the file is written:
\* outputStream.on('finish') calls ask().
StreamFinish ==
    /\ outputStream.status = "open"
    /\ childOut = "ended"
    /\ outputStream' = NoStream
    /\ childOut' = "none"
    /\ file' = WriteFile(outputStream, cwd, ChildOutput(spawned))
    /\ Ask(cwd)
    /\ UNCHANGED <<cwd, out, spawned, child>>
    /\ UNCHANGED tokVars

\* The child could not be spawned: 'error' is emitted on the child, which has
\* no listener for it.
ChildError ==
    /\ pc = "waiting"
    /\ child = "failed"
    /\ pc' = "crashed"
    /\ UNCHANGED <<command, cwd, currentWorkspaceDirectory, out, spawned, child, childOut, outputStream, file, asks, pending>>
    /\ UNCHANGED tokVars

\* The file of the redirection could not be opened: 'error' is emitted on the
\* stream, which has no listener for it.
StreamError ==
    /\ pc = "waiting"
    /\ outputStream.status = "failed"
    /\ pc' = "crashed"
    /\ UNCHANGED <<command, cwd, currentWorkspaceDirectory, out, spawned, child, childOut, outputStream, file, asks, pending>>
    /\ UNCHANGED tokVars

\* The lines the user enters: a command name, or none, followed by items
\* that are each preceded by one space.
LS == <<"l", "s">>
NF == <<"n", "f">>

ShellNames == {<<>>, EXIT, CD, ECHO, LS, NF}

ShellItems == {<<>>, <<"0">>, <<"d">>, <<"f">>, <<">">>}

RECURSIVE SpacedItems(_)
SpacedItems(items) ==
    IF items = <<>> THEN <<>> ELSE <<" ">> \o Head(items) \o SpacedItems(Tail(items))

ShellLines ==
    {name \o SpacedItems(items) : name \in ShellNames, items \in SeqsUpTo(ShellItems, MaxItems)}

Init ==
    /\ command = <<>>
    /\ i = 1
    /\ state = NORMAL
    /\ current = <<>>
    /\ tokens = <<>>
    /\ tpc = "idle"
    /\ pc = "prompt"
    /\ cwd = <<"/">>
    /\ currentWorkspaceDirectory = <<"/">>
    /\ out = NoOutput
    /\ spawned = NoSpawn
    /\ child = "none"
    /\ childOut = "none"
    /\ outputStream = NoStream
    /\ file = NoFile
    /\ asks = 1
    /\ pending = 1

Next ==
    \/ \E line \in ShellLines : Question(line)
    \/ Handle
    \/ ChildClosesOutput
    \/ ChildExit
    \/ StreamFinish
    \/ ChildError
    \/ StreamError

Spec == Init /\ [][Next]_vars

-----------------------------------------------------------------------------
(* Properties of the read-eval loop.                                       *)

\* A step of the rl.question callback.
HandleStep == pc = "handling" /\ pc' # "handling"

Line(words) == Join(words, <<" ">>)

EndsWithRedirect(toks) == toks # <<>> /\ Last(toks).type = "REDIRECT"

\* C7: a line whose tokens end with a Redirect token is a syntax error: the
\* callback spawns no process, opens no file and returns to the prompt.
C7_TrailingRedirectIsSyntaxError ==
    [][(HandleStep /\ EndsWithRedirect(splitCommandLine(command)))
        => /\ pc' = "prompt"
           /\ spawned' = NoSpawn
           /\ child' = child
           /\ outputStream' = NoStream]_vars

\* C8: the prompt is shown, and a line accepted, only when the child of the
\* previous command has exited and the redirection's stream has finished.
C8_PromptAfterChildExitAndFinish ==
    pc \in {"prompt", "handling"} => (child # "running" /\ outputStream.status # "open")

C10_BuiltinOnlyWithoutRedirect ==
    [][/\ (HandleStep /\ command # Line(<<EXIT, <<"0">> >>) /\ splitCommandLine(command) # <<>>)
          => LET toks == splitCommandLine(command)
                 name == toks[1].value
                 redirected == \E k \in 1..Len(toks) : toks[k].type = "REDIRECT"
             IN  /\ (name \in commands /\ ~redirected)
                    => /\ spawned' = NoSpawn
                       /\ child' = child
                       /\ outputStream' = NoStream
                       /\ pc' = IF name = EXIT THEN "closed" ELSE "prompt"
                 /\ (name \in commands /\ redirected)
                    => /\ spawned'.name = name
                       /\ pc' = "waiting"
                       /\ cwd' = cwd
                       /\ out' = NoOutput
                 /\ name \notin commands
                    => /\ cwd' = cwd
                       /\ pc' # "closed"
                       /\ out'.kind \in {"none", "not found"}
       /\ (pc' \in {"closed", "crashed"} /\ splitCommandLine(command') # <<>>)
          => ~ /\ splitCommandLine(command')[1].value \in commands
               /\ \E k \in 1..Len(splitCommandLine(command')) :
                      splitCommandLine(command')[k].type = "REDIRECT"]_vars

\* C10, the part about the routing alone (the first conjunct of C10).
C10_Routing ==
    [][(HandleStep /\ command # Line(<<EXIT, <<"0">> >>) /\ splitCommandLine(command) # <<>>)
        => LET toks == splitCommandLine(command)
               name == toks[1].value
               redirected == \E k \in 1..Len(toks) : toks[k].type = "REDIRECT"
           IN  /\ (name \in commands /\ ~redirected)
                  => /\ spawned' = NoSpawn
                     /\ child' = child
                     /\ outputStream' = NoStream
                     /\ pc' = IF name = EXIT THEN "closed" ELSE "prompt"
               /\ (name \in commands /\ redirected)
                  => /\ spawned'.name = name
                     /\ pc' = "waiting"
                     /\ cwd' = cwd
                     /\ out' = NoOutput
               /\ name \notin commands
                  => /\ cwd' = cwd
                     /\ pc' # "closed"
                     /\ out'.kind \in {"none", "not found"}]_vars

\* C11: a line whose command name is neither a builtin nor resolvable on the
\* search path, with or without a Redirect token, prints `<name>: not found`,
\* spawns no process and returns to the prompt; the interpreter goes on.
C11_UnknownNameIsNotFound ==
    [][(HandleStep /\ splitCommandLine(command) # <<>>)
        => LET toks == splitCommandLine(command)
               name == toks[1].value
           IN  (/\ toks[1].type = "WORD"
                /\ ~EndsWithRedirect(toks)
                /\ name \notin commands
                /\ findExecutableInPath(name) = "null")
               => /\ out' = [kind |-> "not found", text |-> name]
                  /\ spawned' = NoSpawn
                  /\ child' = child
                  /\ pc' = "prompt"]_vars

\* C11, the part about lines without a Redirect token.
C11_WithoutRedirect ==
    [][(HandleStep /\ splitCommandLine(command) # <<>>)
        => LET toks == splitCommandLine(command)
               name == toks[1].value
           IN  (/\ \A k \in 1..Len(toks) : toks[k].type = "WORD"
                /\ name \notin commands
                /\ findExecutableInPath(name) = "null")
               => /\ out' = [kind |-> "not found", text |-> name]
                  /\ spawned' = NoSpawn
                  /\ child' = child
                  /\ pc' = "prompt"]_vars

-----------------------------------------------------------------------------
(* The builtins cd and pwd: lines of cd, pwd and ls with directory          *)
(* arguments, some of them quoted.                                          *)

CdNames == {CD, PWD, LS}

CdItems == { <<"d">>, <<"x">>, <<"~">>, <<"/">>, <<"'", " ", "~", "'">> }

CdLines ==
    {name \o SpacedItems(items) : name \in CdNames, items \in SeqsUpTo(CdItems, MaxItems)}

CdNext ==
    \/ \E line \in CdLines : Question(line)
    \/ Handle
    \/ ChildExit

CdSpec == Init /\ [][CdNext]_vars

\* The line is a cd command that the builtin switch handles.
IsCd(toks) ==
    /\ toks # <<>>
    /\ toks[1].value = CD
    /\ \A k \in 1..Len(toks) : toks[k].type = "WORD"

\* The argument handed to cd: the words after the name, joined by a space.
CdArgument(toks) == Join(Values(Tail(toks)), <<" ">>)

\* What C12 says of a cd whose argument is arg.
CdOutcome(arg) ==
    LET resolved == Resolve(cwd, normalizePath(arg))
    IN  /\ pc' = "prompt"
        /\ IF resolved \in Directories
           THEN cwd' = resolved /\ out' = NoOutput
           ELSE /\ cwd' = cwd
                /\ out' = [kind |-> "cd: no such file or directory", text |-> arg]

\* C12 as stated: a cd whose argument does not begin with `~` changes the
\* working directory only when the resolved path is an existing directory;
\* otherwise the directory stays, `cd: no such file or directory: <argument>`
\* is printed with the argument as given, and the prompt returns.
C12_CdArgumentNotTilde ==
    [][(HandleStep /\ IsCd(splitCommandLine(command)))
        => LET arg == CdArgument(splitCommandLine(command))
           IN  (arg = <<>> \/ Head(arg) # "~") => CdOutcome(arg)]_vars

\* C12 as amended: the same, for an argument that does not begin with `~`
\* once its leading spaces are removed.
C12_CdArgumentNotTildeAfterTrim ==
    [][(HandleStep /\ IsCd(splitCommandLine(command)))
        => LET arg == CdArgument(splitCommandLine(command))
               trimmed == TrimStart(arg)
           IN  (trimmed = <<>> \/ Head(trimmed) # "~") => CdOutcome(arg)]_vars

\* A cd to a missing directory, from a directory other than the initial one,
\* has printed its message and left the directory.
C12_Witness ==
    /\ pc = "prompt"
    /\ cwd = <<"/", "d">>
    /\ out = [kind |-> "cd: no such file or directory", text |-> <<"x", " ", "d">>]

\* C13: pwd prints the working directory of the session; the directory the
\* loop has captured is the one cd last set, and only a cd changes it.
C13_PwdPrintsWorkingDirectory ==
    [][/\ (pc' \in {"prompt", "handling"}) => currentWorkspaceDirectory' = cwd'
       /\ (HandleStep /\ splitCommandLine(command) # <<>>
           /\ splitCommandLine(command)[1].value = PWD /\ pc' = "prompt")
          => out' = [kind |-> "pwd", text |-> cwd]
       /\ (cwd' # cwd \/ currentWorkspaceDirectory' # currentWorkspaceDirectory)
          => HandleStep /\ IsCd(splitCommandLine(command))]_vars

\* pwd has printed a directory that a cd has set.
C13_Witness ==
    /\ pc = "prompt"
    /\ out = [kind |-> "pwd", text |-> <<"/", "d">>]
    /\ cwd = <<"/", "d">>

-----------------------------------------------------------------------------
(* Redirected external commands: lines of ls with arguments, redirection    *)
(* operators and targets.                                                   *)

MaxOpsItems == 2

\* An item of a line is a word, plain or quoted, or an operator with its
\* target.
OpsWords == { <<"a">>, <<"c">>, <<"'", ">", "'">> }

OpsRedirections == {op \o <<" ">> \o target : op \in RedirectOps, target \in { <<"a">>, <<"c">> }}

OpsItems == OpsWords \cup OpsRedirections

OpsLines == {LS \o SpacedItems(items) : items \in SeqsUpTo(OpsItems, MaxOpsItems)}

OpsNext ==
    \/ \E line \in OpsLines : Question(line)
    \/ Handle
    \/ ChildClosesOutput
    \/ ChildExit
    \/ StreamFinish

OpsSpec == Init /\ [][OpsNext]_vars

\* The positions of the Redirect tokens of a line.
RedirectPositions(toks) == {k \in 1..Len(toks) : toks[k].type = "REDIRECT"}

\* The stream an operator names and the mode it asks for.
StreamOf(op) == IF op \in { <<"2", ">">>, <<"2", ">", ">">> } THEN "stderr" ELSE "stdout"

ModeOf(op) == IF op \in { <<">", ">">>, <<"1", ">", ">">>, <<"2", ">", ">">> } THEN "a" ELSE "w"

\* C14: with exactly one redirection operator, `>` and `1>` send stdout to
\* the file truncated, `2>` stderr truncated, `>>` and `1>>` stdout appended,
\* `2>>` stderr appended; the other stream and stdin are inherited.
C14_OperatorSelectsStreamAndMode ==
    [][(HandleStep /\ pc' = "waiting" /\ Cardinality(RedirectPositions(splitCommandLine(command))) = 1)
        => LET toks == splitCommandLine(command)
               op == toks[CHOOSE k \in RedirectPositions(toks) : TRUE].value
           IN  /\ outputStream'.status = "open"
               /\ op \in RedirectOps
               /\ op \in { <<">">>, <<"1", ">">> }
                  => /\ spawned'.stdio = <<"inherit", "pipe", "inherit">>
                     /\ outputStream'.flags = "w"
               /\ op = <<"2", ">">>
                  => /\ spawned'.stdio = <<"inherit", "inherit", "pipe">>
                     /\ outputStream'.flags = "w"
               /\ op \in { <<">", ">">>, <<"1", ">", ">">> }
                  => /\ spawned'.stdio = <<"inherit", "pipe", "inherit">>
                     /\ outputStream'.flags = "a"
               /\ op = <<"2", ">", ">">>
                  => /\ spawned'.stdio = <<"inherit", "inherit", "pipe">>
                     /\ outputStream'.flags = "a"]_vars

\* `ls a 2>> c` has been spawned with stderr piped to a stream that appends.
C14_Witness ==
    /\ pc = "waiting"
    /\ command = Line(<<LS, <<"a">>, <<"2", ">", ">">>, <<"c">> >>)
    /\ spawned.stdio = <<"inherit", "inherit", "pipe">>
    /\ outputStream = [status |-> "open", path |-> <<"c">>, flags |-> "a"]

-----------------------------------------------------------------------------
(* Redirected commands that write the same file, one after the other.       *)

MaxFileLen == 3     \* lines are entered while the file has fewer chunks than this

FileLines ==
    {LS \o SpacedItems(args \o <<op, <<"t">> >>) :
        args \in SeqsUpTo({ <<"a">> }, 1), op \in RedirectOps}

FileNext ==
    \/ \E line \in FileLines : Len(file.content) < MaxFileLen /\ Question(line)
    \/ Handle
    \/ ChildClosesOutput
    \/ ChildExit
    \/ StreamFinish

FileSpec == Init /\ [][FileNext]_vars

\* The operator of a line `ls [a] <op> t` and the words before it.
OperatorOf(line) == splitCommandLine(line)[Len(splitCommandLine(line)) - 1].value

ArgumentsOf(line) ==
    Values(SubSeq(splitCommandLine(line), 2, Len(splitCommandLine(line)) - 2))

\* C15: in a sequence of redirected commands to one file, when a command has
\* completed and the prompt has returned the file holds the command's
\* redirected output alone if the operator truncates, and the previous
\* content followed by that output if the operator appends.  The previous
\* content is the content at the prompt: entering the line does not touch the
\* file, the callback empties it exactly for a truncating operator, nothing
\* is written while the command runs, and the output is there at the prompt.
C15_FileContentAfterCommand ==
    [][/\ (pc = "prompt") => file' = file
       /\ HandleStep
          => /\ pc' = "waiting"
             /\ file'.exists
             /\ file'.content = IF ModeOf(OperatorOf(command)) = "w" THEN <<>> ELSE file.content
       /\ (pc = "waiting" /\ pc' = "waiting") => file' = file
       /\ (pc = "waiting" /\ pc' # "waiting")
          => /\ pc' = "prompt"
             /\ file'.exists
             /\ file'.content = file.content \o
                    << [stream |-> StreamOf(OperatorOf(command)),
                        args |-> ArgumentsOf(command)] >>]_vars

\* After `ls > t`, `ls a 2>> t` has completed: the file holds the output of
\* the first followed by the error output of the second.
C15_Witness ==
    /\ pc = "prompt"
    /\ file = [exists |-> TRUE,
               content |-> << [stream |-> "stdout", args |-> <<>>],
                              [stream |-> "stderr", args |-> << <<"a">> >>] >>]

-----------------------------------------------------------------------------
(* The builtin type: lines of type with names, one of them quoted with a    *)
(* leading space.                                                           *)

TypeItems == { LS, <<"s", "h">>, CD, NF, <<"'", " ", "c", "d", "'">> }

TypeLines == {TYPE \o SpacedItems(items) : items \in SeqsUpTo(TypeItems, MaxItems)}

TypeNext ==
    \/ \E line \in TypeLines : Question(line)
    \/ Handle

TypeSpec == Init /\ [][TypeNext]_vars

\* The line is `type X` with one argument.
IsTypeOfOne(toks) ==
    /\ Len(toks) = 2
    /\ toks[1] = [type |-> "WORD", value |-> TYPE]
    /\ toks[2].type = "WORD"

\* What type prints for an argument shown as X and looked up as name: the
\* builtin message, the path in the first directory of the search path that
\* holds an executable file of that name, or `not found`.
TypeOutcome(X, name) ==
    LET holds == {k \in 1..Len(routes) : PathJoin(routes[k], name) \in ExecutableFiles}
    IN  /\ pc' = "prompt"
        /\ IF name \in {ECHO, TYPE, PWD, CD, EXIT}
           THEN out' = [kind |-> "is a shell builtin", text |-> X]
           ELSE IF holds # {}
           THEN \E k \in holds :
                    /\ \A j \in holds : k <= j
                    /\ out' = [kind |-> "is", text |-> name, path |-> PathJoin(routes[k], name)]
           ELSE out' = [kind |-> "not found", text |-> name]

RECURSIVE Redirections(_, _)
Redirections(toks, k) ==
    IF k > Len(toks) THEN <<>>
    ELSE IF toks[k].type = "REDIRECT" /\ k < Len(toks) /\ toks[k + 1].type = "WORD"
    THEN << [op |-> toks[k].value, target |-> toks[k + 1].value] >> \o Redirections(toks, k + 2)
    ELSE Redirections(toks, k + 1)

\* Every Redirect token of the line has a Word after it.
WellFormed(toks) ==
    /\ toks # <<>>
    /\ toks[1].type = "WORD"
    /\ \A k \in RedirectPositions(toks) : k < Len(toks) /\ toks[k + 1].type = "WORD"

\* The Word tokens after the command name that are not the target of a
\* Redirect token.
RECURSIVE ArgumentWords(_, _)
ArgumentWords(toks, k) ==
    IF k > Len(toks) THEN <<>>
    ELSE IF toks[k].type = "REDIRECT" THEN ArgumentWords(toks, k + 2)
    ELSE <<toks[k].value>> \o ArgumentWords(toks, k + 1)

\* C17: the target of a redirection is the first Word after the Redirect
\* token: `ls > a c` opens `a`, not `c`.
C17_TargetIsWordAfterOperator ==
    [][(HandleStep /\ WellFormed(splitCommandLine(command))
        /\ Len(Redirections(splitCommandLine(command), 1)) = 1)
        => /\ pc' = "waiting"
           /\ outputStream'.path = Redirections(splitCommandLine(command), 1)[1].target]_vars

\* C17 holds of the lines whose last token is the target.
C17_TargetWhenLast ==
    [][(HandleStep /\ WellFormed(splitCommandLine(command))
        /\ Len(Redirections(splitCommandLine(command), 1)) = 1
        /\ splitCommandLine(command)[Len(splitCommandLine(command)) - 1].type = "REDIRECT")
        => /\ pc' = "waiting"
           /\ outputStream'.path = Redirections(splitCommandLine(command), 1)[1].target]_vars

\* C18: the child gets as arguments the Word tokens that are neither the
\* command name nor a redirection target, in order; a Word after the target
\* is an argument, and so is a quoted Word that reads like an operator.
C18_ArgumentsAreTheOtherWords ==
    [][(HandleStep /\ WellFormed(splitCommandLine(command)))
        => /\ pc' = "waiting"
           /\ spawned'.args = ArgumentWords(splitCommandLine(command), 2)]_vars

\* C19: when one stream is redirected twice, the later operator gives the
\* mode and the target: `ls > a >> c` appends stdout to `c`.
C19_LaterRedirectionWins ==
    [][(HandleStep /\ WellFormed(splitCommandLine(command))
        /\ Len(Redirections(splitCommandLine(command), 1)) = 2
        /\ StreamOf(Redirections(splitCommandLine(command), 1)[1].op)
           = StreamOf(Redirections(splitCommandLine(command), 1)[2].op))
        => LET later == Redirections(splitCommandLine(command), 1)[2]
           IN  /\ pc' = "waiting"
               /\ outputStream'.path = later.target
               /\ outputStream'.flags = ModeOf(later.op)
               /\ spawned'.stdio = IF StreamOf(later.op) = "stderr"
                                   THEN <<"inherit", "inherit", "pipe">>
                                   ELSE <<"inherit", "pipe", "inherit">>]_vars

\* C20: when stdout and stderr are redirected to different targets, both
\* redirections are applied: in `ls > a 2> c` stdout goes to `a` and stderr
\* to `c`, so both streams of the child are piped, and a piped stream is
\* written to the target of its own operator.
C20_BothStreamsRedirected ==
    [][(HandleStep /\ WellFormed(splitCommandLine(command))
        /\ Len(Redirections(splitCommandLine(command), 1)) = 2
        /\ StreamOf(Redirections(splitCommandLine(command), 1)[1].op)
           # StreamOf(Redirections(splitCommandLine(command), 1)[2].op)
        /\ Redirections(splitCommandLine(command), 1)[1].target
           # Redirections(splitCommandLine(command), 1)[2].target)
        => LET reds == Redirections(splitCommandLine(command), 1)
               piped == IF spawned'.stdio[3] = "pipe" THEN "stderr" ELSE "stdout"
           IN  /\ pc' = "waiting"
               /\ spawned'.stdio = <<"inherit", "pipe", "pipe">>
               /\ \E r \in 1..2 : /\ StreamOf(reds[r].op) = piped
                                  /\ outputStream'.path = reds[r].target]_vars

-----------------------------------------------------------------------------
(* The tokenizer: where Redirect tokens come from, and the order of tokens. *)

\* The quoting of the character at position k of a line, by the rules of the
\* shell language: "plain", inside 'single' or "double" quotes, or escaped by
\* a backslash outside ("escaped") or inside double quotes ("dq-escaped").
RECURSIVE QuotingAt(_, _)
QuotingAt(line, k) ==
    IF k <= 1 THEN "plain"
    ELSE LET before == QuotingAt(line, k - 1)
             c == line[k - 1]
         IN  IF before = "plain"
             THEN IF c = "'" THEN "single"
                  ELSE IF c = "\"" THEN "double"
                  ELSE IF c = "\\" THEN "escaped"
                  ELSE "plain"
             ELSE IF before = "single"
             THEN IF c = "'" THEN "plain" ELSE "single"
             ELSE IF before = "double"
             THEN IF c = "\"" THEN "plain"
                  ELSE IF c = "\\" /\ k <= Len(line) /\ line[k] \in {"\"", "$", "\\", "GRAVE"}
                       THEN "dq-escaped"
                  ELSE "double"
             ELSE IF before = "escaped" THEN "plain"
             ELSE "double"

\* A loop iteration has pushed a Redirect token.
PushesRedirect ==
    /\ Len(tokens') = Len(tokens) + 1
    /\ tokens'[Len(tokens')].type = "REDIRECT"

\* C21: a Redirect token is pushed only in the NORMAL state, for an operator
\* that stands at the loop's position in the line with all its characters
\* outside quotes and not escaped.
C21_RedirectOnlyInNormalState ==
    [][PushesRedirect
        => LET op == tokens'[Len(tokens')].value
           IN  /\ state = NORMAL
               /\ op \in RedirectOps
               /\ i + Len(op) - 1 <= Len(command)
               /\ op = SubSeq(command, i, i + Len(op) - 1)
               /\ \A k \in i..(i + Len(op) - 1) : QuotingAt(command, k) = "plain"
               /\ i' = i + Len(op)]_vars

\* `'>'>` is tokenized: the quoted `>` is in a Word and the other one is the
\* only Redirect token.
C21_Witness ==
    /\ tpc = "done"
    /\ command = <<"'", ">", "'", ">">>
    /\ Len(SelectSeq(tokens, LAMBDA t : t.type = "REDIRECT")) = 1
    /\ Len(SelectSeq(tokens, LAMBDA t : t = Word(<<">">>))) = 1

\* C22: tokens come out in the order of their text in the line.  When a
\* Redirect token is pushed, the word characters read before the operator are
\* already in a Word token: none is left to be pushed after the Redirect
\* token or to be joined with the characters after the operator.
C22_TokensInLineOrder ==
    [][PushesRedirect => current' = <<>>]_vars

\* C22 holds of the lines `w op t`, where a space stands before the operator.
C22_WhenSpaceBeforeOperator ==
    tpc = "done" =>
        \E w \in PlainWords, op \in RedirectOps, t \in PlainWords :
            /\ command = RedirLine(w, op, t)
            /\ tokens = <<Word(w), Redirect(op), Word(t)>>

-----------------------------------------------------------------------------
(* The read-eval loop with its steps taken in the end: a pending callback   *)
(* runs, and a child exits, closes its stream, and the events that follow   *)
(* are delivered.  The lines are the empty line, a line of one space, a     *)
(* line without a token, a line whose first token is a Redirect, and lines  *)
(* of each path of the callback.                                            *)

LiveLines ==
    { <<>>, <<" ">>, <<"'", "'">>,
      Line(<< <<">">>, <<"f">> >>),
      LS, Line(<<LS, <<">">>, <<"f">> >>), Line(<<LS, <<">">>, <<"d">> >>),
      NF, Line(<<ECHO, <<"0">> >>), Line(<<CD, <<"d">> >>), Line(<<CD, <<"/">> >>), PWD }

LiveNext ==
    \/ \E line \in LiveLines : Question(line)
    \/ Handle
    \/ ChildClosesOutput
    \/ ChildExit
    \/ StreamFinish
    \/ ChildError
    \/ StreamError

\* A step of Handle, told by what it does to pc: Handle is enabled exactly
\* when a line is handed to the callback, and every step of it ends the
\* handling.
HandleTaken == pc = "handling" /\ pc' \in {"prompt", "waiting", "closed", "crashed"}

FairSpec ==
    /\ Init
    /\ [][LiveNext]_vars
    /\ WF_pc(HandleTaken)
    /\ WF_vars(ChildClosesOutput)
    /\ WF_vars(ChildExit)
    /\ WF_vars(StreamFinish)
    /\ WF_vars(ChildError)
    /\ WF_vars(StreamError)

\* C23: every line other than `exit 0`, the empty line and the lines without
\* a token or with a Redirect token first among them, is followed by the
\* prompt; none ends the interpreter or leaves it waiting.
C23_PromptReturns ==
    (pc = "handling" /\ command # Line(<<EXIT, <<"0">> >>)) ~> (pc = "prompt")

\* C23 holds of the lines that run a builtin other than exit without a
\* Redirect token, and of the lines without a Redirect token whose name is
\* not a builtin.
C23_PromptReturnsWithoutRedirect ==
    (/\ pc = "handling"
     /\ splitCommandLine(command) # <<>>
     /\ splitCommandLine(command)[1].value # EXIT
     /\ \A k \in 1..Len(splitCommandLine(command)) :
            splitCommandLine(command)[k].type = "WORD")
    ~> (pc = "prompt")

-----------------------------------------------------------------------------
(* The calls of ask().                                                      *)

\* C24: for a line that does not end the shell ask() is called once, on each
\* path of the callback: at the prompt one question is pending and ask() has
\* been called once since the last line; while a line is handled or awaited
\* no question is pending and ask() has not been called; never are two
\* questions pending.
C24_AskOncePerLine ==
    /\ asks \in {0, 1}
    /\ pending \in {0, 1}
    /\ pc = "prompt" => (asks = 1 /\ pending = 1)
    /\ pc \in {"handling", "waiting"} => (asks = 0 /\ pending = 0)
    /\ pc \in {"closed", "crashed"} => (asks = 0 /\ pending = 0)

\* The prompt is back after a redirected ls whose child has exited.
C24_Witness ==
    /\ pc = "prompt"
    /\ asks = 1
    /\ pending = 1
    /\ spawned.name = LS
    /\ spawned.stdio = <<"inherit", "pipe", "inherit">>
    /\ child = "exited"

=============================================================================
